---- MODULE Spec2Model ----
(***************************************************************************)
(* Receipto: the relational schema (db/init.sql and the 001_settings_tables *)
(* migration) and the upload dropzone (frontend/components/                 *)
(* receipt-dropzone.tsx), as state machines.                                *)
(*                                                                          *)
(* Tables are collections of rows; a statement the database refuses (a      *)
(* violated CHECK, UNIQUE, PRIMARY KEY or FOREIGN KEY constraint) changes   *)
(* nothing and is modelled as a disabled action.  UUID defaults are fresh   *)
(* identifiers drawn from a counter.  CURRENT_TIMESTAMP is the clock `now`. *)
(* Columns no statement of interest reads (image_url, tax_amount,           *)
(* description, ...) are left out of the rows.                              *)
(*                                                                          *)
(* Each specification below drives one part of the state and leaves the     *)
(* rest at its initial value.                                               *)
(***************************************************************************)
EXTENDS Integers, Sequences, FiniteSets, TLC

VARIABLES
    receipts,       \* the receipts table: a set of rows
    line_items,     \* the line_items table: a set of rows
    nextReceiptId,  \* next value of uuid_generate_v4() for receipts.id
    nextItemId,     \* next value of uuid_generate_v4() for line_items.id
    inflight,       \* receipt ids whose extraction has not returned yet
    now,            \* CURRENT_TIMESTAMP
    categories,     \* the categories table: rows in insertion order
    settings,       \* the settings table: rows in insertion order
    lastSet,        \* per settings key, the value of the last set (history)
    selectedFile,   \* the dropzone's selectedFile prop
    disabled,       \* the dropzone's disabled prop
    lastOp,         \* the last database statement or pipeline step (history)
    lastEvent       \* the last dropzone event and the callbacks it made (history)

vars ==
    <<receipts, line_items, nextReceiptId, nextItemId, inflight, now, categories,
      settings, lastSet, selectedFile, disabled, lastOp, lastEvent>>

storeVars == <<receipts, line_items, nextReceiptId, nextItemId, inflight>>
catalogVars == <<categories, settings, lastSet>>
uiVars == <<selectedFile, disabled, lastEvent>>

-----------------------------------------------------------------------------
(* Bounds of the model *)

MaxReceipts == 2
MaxItems == 3
MaxTime == 2
MaxStamped == 2
MaxDrop == 2

-----------------------------------------------------------------------------
(* SQL values *)

NULL == "NULL"
DEFAULT == "DEFAULT"

CURRENT_TIMESTAMP == now

NoOp == [op |-> "none", id |-> 0, cols |-> {}, n |-> 0]

Op(name, id, cols, n) == [op |-> name, id |-> id, cols |-> cols, n |-> n]

-----------------------------------------------------------------------------
(* receipts: db/init.sql *)

StatusValues == {"pending", "complete", "manual_review"}

\* A status column whose default is not the initial state.
StatusDefaultComplete == "complete"

StatusDefault == "pending"

\* CHECK (status IN (...)): a CHECK is satisfied unless its expression is
\* false; `NULL IN (...)` is unknown, not false.
StatusCheck(s) == s = NULL \/ s \in StatusValues

\* The value stored for a column the INSERT leaves out or names DEFAULT.
ColumnValue(given, dflt) == IF given = DEFAULT THEN dflt ELSE given

ReceiptRow(id, merchant, date, total, status) ==
    [id |-> id,
     merchant_name |-> ColumnValue(merchant, NULL),
     purchase_date |-> ColumnValue(date, NULL),
     total_amount |-> ColumnValue(total, NULL),
     status |-> ColumnValue(status, StatusDefault),
     created_at |-> CURRENT_TIMESTAMP,
     updated_at |-> CURRENT_TIMESTAMP]

ReceiptIds == {r.id : r \in receipts}

ReceiptById(id) == CHOOSE r \in receipts : r.id = id

\* The SET list of an UPDATE: a function from the assigned columns to values.
Assigned(asg, col, old) == IF col \in DOMAIN asg THEN asg[col] ELSE old

ApplySet(row, asg) ==
    [id |-> row.id,
     merchant_name |-> Assigned(asg, "merchant_name", row.merchant_name),
     purchase_date |-> Assigned(asg, "purchase_date", row.purchase_date),
     total_amount |-> Assigned(asg, "total_amount", row.total_amount),
     status |-> Assigned(asg, "status", row.status),
     created_at |-> Assigned(asg, "created_at", row.created_at),
     updated_at |-> Assigned(asg, "updated_at", row.updated_at)]

\* An UPDATE with no trigger on the table.
update_updated_at_column_missing(new) == new

\* BEFORE UPDATE ... FOR EACH ROW: NEW.updated_at = CURRENT_TIMESTAMP.
update_updated_at_column(new) == [new EXCEPT !.updated_at = CURRENT_TIMESTAMP]

\* The row an UPDATE of `row` stores: the SET list, then the trigger.
UpdatedRow(row, asg) == update_updated_at_column(ApplySet(row, asg))

\* INSERT INTO receipts (...) VALUES (...), id by its default.
InsertReceiptRow(merchant, date, total, status) ==
    LET row == ReceiptRow(nextReceiptId, merchant, date, total, status)
    IN  /\ nextReceiptId <= MaxReceipts
        /\ StatusCheck(row.status)
        /\ receipts' = receipts \cup {row}
        /\ nextReceiptId' = nextReceiptId + 1

\* UPDATE receipts SET <asg> WHERE id = <id>.
UpdateReceiptRow(id, asg) ==
    LET old == ReceiptById(id)
        new == UpdatedRow(old, asg)
    IN  /\ id \in ReceiptIds
        /\ StatusCheck(new.status)
        /\ receipts' = (receipts \ {old}) \cup {new}

-----------------------------------------------------------------------------
(* line_items: db/init.sql *)

LineItemRow(id, receipt_id, category) ==
    [id |-> id, receipt_id |-> receipt_id, category |-> category, quantity |-> 1]

\* receipt_id UUID NOT NULL REFERENCES receipts(id)
ForeignKeyOk(receipt_id) == receipt_id \in ReceiptIds

\* A foreign key without ON DELETE CASCADE.
OnDeleteNoCascade(items, receipt_id) == items

\* ON DELETE CASCADE: the rows that remain once receipt `receipt_id` is deleted.
OnDeleteCascade(items, receipt_id) == {li \in items : li.receipt_id # receipt_id}

\* INSERT INTO line_items (receipt_id, category) VALUES (...), id by its default.
InsertLineItemRows(items, receipt_id, cats) ==
    items \cup {LineItemRow(nextItemId + i - 1, receipt_id, cats[i]) : i \in 1..Len(cats)}

-----------------------------------------------------------------------------
(* Statements on receipts and line_items *)

StatusInputs == {DEFAULT, NULL, "pending", "complete", "manual_review", "archived"}

CategoryInputs == {NULL, "Snacks"}

\* INSERT INTO receipts (image_url) VALUES (...)
CreateReceipt ==
    /\ InsertReceiptRow(DEFAULT, DEFAULT, DEFAULT, DEFAULT)
    /\ lastOp' = Op("insert_receipt", nextReceiptId, {}, 0)
    /\ UNCHANGED <<line_items, nextItemId, inflight, now, catalogVars, uiVars>>

\* INSERT INTO receipts (image_url [, status]) VALUES (...)
InsertReceipt ==
    \E s \in StatusInputs :
        /\ InsertReceiptRow(DEFAULT, DEFAULT, DEFAULT, s)
        /\ lastOp' = Op("insert_receipt", nextReceiptId,
                        IF s = DEFAULT THEN {} ELSE {"status"}, 0)
        /\ UNCHANGED <<line_items, nextItemId, inflight, now, catalogVars, uiVars>>

\* UPDATE receipts SET status = <s> WHERE id = <id>: an edit outside the pipeline.
UpdateStatus ==
    \E id \in ReceiptIds, s \in StatusInputs \ {DEFAULT} :
        /\ UpdateReceiptRow(id, [status |-> s])
        /\ lastOp' = Op("update_receipt", id, {"status"}, 0)
        /\ UNCHANGED <<line_items, nextReceiptId, nextItemId, inflight, now,
                       catalogVars, uiVars>>

\* DELETE FROM receipts WHERE id = <id>
DeleteReceipt ==
    \E id \in ReceiptIds :
        /\ receipts' = receipts \ {ReceiptById(id)}
        /\ line_items' = OnDeleteCascade(line_items, id)
        /\ lastOp' = Op("delete_receipt", id, {},
                        Cardinality({li \in line_items : li.receipt_id = id}))
        /\ UNCHANGED <<nextReceiptId, nextItemId, inflight, now, catalogVars, uiVars>>

\* INSERT INTO line_items (receipt_id, category) VALUES (<rid>, <cat>), for any
\* uuid <rid>, of a receipt that exists, was deleted or never existed.
InsertLineItem ==
    \E rid \in 1..MaxReceipts, cat \in CategoryInputs :
        /\ nextItemId <= MaxItems
        /\ ForeignKeyOk(rid)
        /\ line_items' = InsertLineItemRows(line_items, rid, <<cat>>)
        /\ nextItemId' = nextItemId + 1
        /\ lastOp' = Op("insert_line_item", rid, {}, 1)
        /\ UNCHANGED <<receipts, nextReceiptId, inflight, now, catalogVars, uiVars>>

\* DELETE FROM line_items WHERE id = <id>
DeleteLineItem ==
    \E li \in line_items :
        /\ line_items' = line_items \ {li}
        /\ lastOp' = Op("delete_line_item", li.receipt_id, {}, 1)
        /\ UNCHANGED <<receipts, nextReceiptId, nextItemId, inflight, now,
                       catalogVars, uiVars>>

-----------------------------------------------------------------------------
(* The ingestion pipeline (spec section 4.5) over the receipts schema *)

Extracted(merchant, date, total, items) ==
    [merchant_name |-> merchant, purchase_date |-> date, total_amount |-> total,
     items |-> items]

\* What the extraction adapter may hand back: a full result with and without
\* line items, a result lacking the total, and a failure (nothing extracted).
ExtractionResults ==
    {Extracted("Acme", "2024-01-15", "12.50", <<"Groceries", "Snacks">>),
     Extracted("Acme", "2024-01-15", "12.50", <<>>),
     Extracted("Acme", "2024-01-15", NULL, <<"Groceries">>),
     Extracted(NULL, NULL, NULL, <<>>)}

\* A non-empty merchant name, a purchase date and a total amount.
Sufficient(res) ==
    res.merchant_name # NULL /\ res.purchase_date # NULL /\ res.total_amount # NULL

\* Steps (2)-(3): the receipt row is created, by the column defaults, before
\* extraction begins.
Upload ==
    /\ InsertReceiptRow(DEFAULT, DEFAULT, DEFAULT, DEFAULT)
    /\ inflight' = inflight \cup {nextReceiptId}
    /\ lastOp' = Op("upload", nextReceiptId, {}, 0)
    /\ UNCHANGED <<line_items, nextItemId, now, catalogVars, uiVars>>

\* Steps (5)-(6): pending -> complete on sufficient fields, with the line items;
\* pending -> manual_review otherwise, with the partial fields.  No transition is
\* defined out of another status: a receipt edited meanwhile keeps its status.
ExtractionFields(row, res) ==
    LET fields == [merchant_name |-> res.merchant_name,
                   purchase_date |-> res.purchase_date,
                   total_amount |-> res.total_amount]
        target == IF Sufficient(res) THEN "complete" ELSE "manual_review"
    IN  IF row.status = "pending"
        THEN [merchant_name |-> res.merchant_name,
              purchase_date |-> res.purchase_date,
              total_amount |-> res.total_amount,
              status |-> target]
        ELSE fields

ExtractionReturns ==
    \E id \in inflight, res \in ExtractionResults :
        LET items == IF Sufficient(res) THEN res.items ELSE <<>>
        IN  /\ inflight' = inflight \ {id}
            /\ lastOp' = Op("extract", id, {}, Len(items))
            /\ IF id \in ReceiptIds
               THEN /\ UpdateReceiptRow(id, ExtractionFields(ReceiptById(id), res))
                    /\ nextItemId + Len(items) - 1 <= MaxItems
                    /\ line_items' = InsertLineItemRows(line_items, id, items)
                    /\ nextItemId' = nextItemId + Len(items)
               ELSE UNCHANGED <<receipts, line_items, nextItemId>>
            /\ UNCHANGED <<nextReceiptId, now, catalogVars, uiVars>>

-----------------------------------------------------------------------------
(* Timestamps of receipts *)

TimeInputs == {0}

SetLists ==
    {[merchant_name |-> "Acme"], [status |-> "complete"]}
    \cup {[updated_at |-> t] : t \in TimeInputs}
    \cup {[created_at |-> t] : t \in TimeInputs}
    \cup {[merchant_name |-> "Acme", updated_at |-> t] : t \in TimeInputs}

\* INSERT INTO receipts (image_url) VALUES (...)
StampInsert ==
    /\ nextReceiptId <= MaxStamped
    /\ CreateReceipt

\* UPDATE receipts SET <asg> WHERE id = <id>
UpdateReceipt ==
    \E id \in ReceiptIds, asg \in SetLists :
        /\ UpdateReceiptRow(id, asg)
        /\ lastOp' = Op("update_receipt", id, DOMAIN asg, 0)
        /\ UNCHANGED <<line_items, nextReceiptId, nextItemId, inflight, now,
                       catalogVars, uiVars>>

\* Time passes between statements.
Tick ==
    /\ now < MaxTime
    /\ now' = now + 1
    /\ lastOp' = Op("tick", 0, {}, 0)
    /\ UNCHANGED <<storeVars, catalogVars, uiVars>>

-----------------------------------------------------------------------------
(* categories: db/init.sql and migrations/001_settings_tables.sql *)

CategoryRow(name, limit) == [name |-> name, monthly_budget_limit |-> limit]

\* INSERT INTO categories ... VALUES of db/init.sql
InitSeed ==
    <<CategoryRow("Groceries", "400.00"), CategoryRow("Dining", "300.00"),
      CategoryRow("Transportation", "200.00"), CategoryRow("Utilities", "250.00"),
      CategoryRow("Entertainment", "150.00"), CategoryRow("Healthcare", "200.00"),
      CategoryRow("Clothing", "150.00"), CategoryRow("Home & Garden", "100.00"),
      CategoryRow("Personal Care", "100.00"), CategoryRow("Shopping", "200.00"),
      CategoryRow("Other", "100.00")>>

\* INSERT INTO categories ... VALUES of the 001_settings_tables migration
MigrationSeed ==
    <<CategoryRow("Groceries", NULL), CategoryRow("Dining", NULL),
      CategoryRow("Transportation", NULL), CategoryRow("Utilities", NULL),
      CategoryRow("Entertainment", NULL), CategoryRow("Healthcare", NULL),
      CategoryRow("Clothing", NULL), CategoryRow("Home & Garden", NULL),
      CategoryRow("Personal Care", NULL), CategoryRow("Shopping", NULL),
      CategoryRow("Other", NULL)>>

\* name VARCHAR(100) UNIQUE NOT NULL: the rows an insert of `name` conflicts with.
NameConflicts(rows, name) == {i \in 1..Len(rows) : rows[i].name = name}

\* INSERT ... ON CONFLICT (name) DO UPDATE: the inserted row overwrites.
CategoryOnConflictDoUpdate(rows, row) ==
    IF NameConflicts(rows, row.name) # {}
    THEN [i \in 1..Len(rows) |-> IF rows[i].name = row.name THEN row ELSE rows[i]]
    ELSE Append(rows, row)

\* INSERT ... ON CONFLICT (name) DO NOTHING, one row.
CategoryOnConflictDoNothing(rows, row) ==
    IF NameConflicts(rows, row.name) # {} THEN rows ELSE Append(rows, row)

\* The rows of a multi-row INSERT ... ON CONFLICT (name) DO NOTHING, in order.
RECURSIVE InsertCategories(_, _)
InsertCategories(rows, seed) ==
    IF seed = <<>>
    THEN rows
    ELSE InsertCategories(CategoryOnConflictDoNothing(rows, Head(seed)), Tail(seed))

NameInputs == {"Groceries", "Other", "Pets"}

LimitInputs == {NULL, "75.00"}

\* The seed block of db/init.sql.
SeedInitSql ==
    /\ categories' = InsertCategories(categories, InitSeed)
    /\ lastOp' = Op("seed_init", 0, {}, Len(InitSeed))
    /\ UNCHANGED <<storeVars, now, settings, lastSet, uiVars>>

\* The seed block of the 001_settings_tables migration.
SeedMigration ==
    /\ categories' = InsertCategories(categories, MigrationSeed)
    /\ lastOp' = Op("seed_migration", 0, {}, Len(MigrationSeed))
    /\ UNCHANGED <<storeVars, now, settings, lastSet, uiVars>>

\* An insert of one category: of a new name, or of a name that exists (which
\* the UNIQUE constraint turns into no change).  n: the rows it conflicts with.
InsertCategory ==
    \E name \in NameInputs, limit \in LimitInputs :
        /\ categories' = InsertCategories(categories, <<CategoryRow(name, limit)>>)
        /\ lastOp' = Op("insert_category", name, {},
                        Cardinality(NameConflicts(categories, name)))
        /\ UNCHANGED <<storeVars, now, settings, lastSet, uiVars>>

\* The explicit update path (spec section 4.1): overwrite the budget limit.
UpdateBudget ==
    \E i \in 1..Len(categories), limit \in LimitInputs :
        /\ categories[i].name \in NameInputs
        /\ categories' = [categories EXCEPT ![i].monthly_budget_limit = limit]
        /\ lastOp' = Op("update_category", categories[i].name,
                        {"monthly_budget_limit"}, 1)
        /\ UNCHANGED <<storeVars, now, settings, lastSet, uiVars>>

-----------------------------------------------------------------------------
(* settings: migrations/001_settings_tables.sql *)

SettingRow(key, value, encrypted) ==
    [key |-> key, value |-> value, encrypted |-> encrypted,
     updated_at |-> CURRENT_TIMESTAMP]

\* INSERT INTO settings ... VALUES of the migration
SettingsSeed ==
    <<[key |-> "llm_provider", value |-> "gemini", encrypted |-> FALSE],
      [key |-> "llm_model", value |-> "gemini-2.0-flash", encrypted |-> FALSE],
      [key |-> "theme", value |-> "system", encrypted |-> FALSE]>>

SetInputs ==
    {[key |-> "theme", value |-> "system", encrypted |-> FALSE],
     [key |-> "theme", value |-> "dark", encrypted |-> FALSE],
     [key |-> "llm_api_key", value |-> "k1", encrypted |-> TRUE],
     [key |-> "llm_api_key", value |-> "k2", encrypted |-> TRUE]}

SettingKeys == {"llm_provider", "llm_model", "theme", "llm_api_key"}

\* key VARCHAR(100) PRIMARY KEY: the rows an insert of `key` conflicts with.
KeyConflicts(rows, key) == {i \in 1..Len(rows) : rows[i].key = key}

\* INSERT ... ON CONFLICT (key) DO UPDATE: the inserted row overwrites.
SettingOnConflictDoUpdate(rows, row) ==
    IF KeyConflicts(rows, row.key) # {}
    THEN [i \in 1..Len(rows) |-> IF rows[i].key = row.key THEN row ELSE rows[i]]
    ELSE Append(rows, row)

\* INSERT ... ON CONFLICT (key) DO NOTHING, one row.
SettingOnConflictDoNothing(rows, row) ==
    IF KeyConflicts(rows, row.key) # {} THEN rows ELSE Append(rows, row)

RECURSIVE InsertSettings(_, _)
InsertSettings(rows, seed) ==
    IF seed = <<>>
    THEN rows
    ELSE InsertSettings(
             SettingOnConflictDoNothing(
                 rows, SettingRow(Head(seed).key, Head(seed).value, Head(seed).encrypted)),
             Tail(seed))

\* An upsert that leaves updated_at of an existing row as it was.
UpsertSettingKeepStamp(rows, in) ==
    IF KeyConflicts(rows, in.key) # {}
    THEN [i \in 1..Len(rows) |->
             IF rows[i].key = in.key
             THEN [rows[i] EXCEPT !.value = in.value, !.encrypted = in.encrypted]
             ELSE rows[i]]
    ELSE Append(rows, SettingRow(in.key, in.value, in.encrypted))

\* set(key, value, encrypted) (spec section 4.2): an upsert keyed by key, last
\* write wins, updated_at refreshed.
UpsertSetting(rows, in) ==
    IF KeyConflicts(rows, in.key) # {}
    THEN [i \in 1..Len(rows) |->
             IF rows[i].key = in.key
             THEN SettingRow(in.key, in.value, in.encrypted)
             ELSE rows[i]]
    ELSE Append(rows, SettingRow(in.key, in.value, in.encrypted))

\* The seed block of the 001_settings_tables migration.
SeedSettings ==
    /\ settings' = InsertSettings(settings, SettingsSeed)
    /\ lastOp' = Op("seed_settings", 0, {}, Len(SettingsSeed))
    /\ UNCHANGED <<storeVars, now, categories, lastSet, uiVars>>

\* set(key, value, encrypted).  n: the rows of the key before the set; cols:
\* the columns whose stored value the set changed.
SetSetting ==
    \E in \in SetInputs :
        /\ settings' = UpsertSetting(settings, in)
        /\ lastSet' = [lastSet EXCEPT ![in.key] = in.value]
        /\ lastOp' = Op("set_setting", in.key,
                        IF \E i \in KeyConflicts(settings, in.key) :
                               settings[i].value = in.value
                        THEN {}
                        ELSE {"value"},
                        Cardinality(KeyConflicts(settings, in.key)))
        /\ UNCHANGED <<storeVars, now, categories, uiVars>>

-----------------------------------------------------------------------------
(* The upload dropzone: frontend/components/receipt-dropzone.tsx *)

File(name, type) == [name |-> name, type |-> type]

\* selectedFile = null
NoFile == File("", "")

FilePool ==
    {File("receipt.jpg", "image/jpeg"), File("scan.png", "image/png"),
     File("invoice.pdf", "application/pdf"), File("notes.txt", "text/plain")}

\* What one drag-and-drop may carry: 1..MaxDrop distinct files, in order.
Drops ==
    {fs \in UNION {[1..n -> FilePool] : n \in 1..MaxDrop} :
        \A i, j \in 1..Len(fs) : i # j => fs[i] # fs[j]}

\* An accept list that also lets text/plain through.
AcceptWithText == {"image/jpeg", "image/png", "application/pdf", "text/plain"}

\* useDropzone({accept: {...}})
Accept == {"image/jpeg", "image/png", "application/pdf"}

\* useDropzone({maxFiles: 1, multiple: false})
MaxFiles == 1

Multiple == FALSE

\* A dropzone that stays enabled while a file is selected.
DropzoneDisabledByPropOnly == disabled

\* useDropzone({disabled: disabled || !!selectedFile})
DropzoneDisabled == disabled \/ selectedFile # NoFile

FileAccepted(f) == f.type \in Accept

FileNotAccepted(f) == ~FileAccepted(f)

\* With multiple = false, more than one acceptable file rejects them all.
TooManyFiles(files) ==
    \/ ~Multiple /\ Len(SelectSeq(files, FileAccepted)) > 1
    \/ Multiple /\ MaxFiles >= 1 /\ Len(SelectSeq(files, FileAccepted)) > MaxFiles

\* The acceptedFiles and rejectedFiles useDropzone hands to onDrop.
AcceptedFiles(files) ==
    IF TooManyFiles(files) THEN <<>> ELSE SelectSeq(files, FileAccepted)

RejectedFiles(files) ==
    IF TooManyFiles(files)
    THEN SelectSeq(files, FileNotAccepted) \o SelectSeq(files, FileAccepted)
    ELSE SelectSeq(files, FileNotAccepted)

\* onDrop: the calls of onFileSelect ...
OnDropSelects(acceptedFiles) ==
    IF Len(acceptedFiles) > 0 THEN <<acceptedFiles[1]>> ELSE <<>>

\* ... the rejections written by console.warn ...
OnDropWarns(rejectedFiles) ==
    IF Len(rejectedFiles) > 0 THEN <<rejectedFiles[1]>> ELSE <<>>

\* ... and the rejections handed to the caller: ReceiptDropzoneProps has no
\* callback for them and onDrop calls none.
OnDropReports(rejectedFiles) == <<>>

\* The caller's state: selectedFile is the file onFileSelect was given, and
\* null after onFileRemove (spec section 4.6).
ParentOnFileSelect(file) == file

ParentOnFileRemove == NoFile

NoEvent ==
    [kind |-> "none", files |-> <<>>, selectedBefore |-> NoFile, enabled |-> TRUE,
     selects |-> <<>>, refused |-> <<>>, warned |-> <<>>, reported |-> <<>>]

\* One batch of files reaching the dropzone.  A disabled dropzone ignores it:
\* onDrop is not called.
HandleFiles(kind, files) ==
    LET enabled == ~DropzoneDisabled
        accepted == IF enabled THEN AcceptedFiles(files) ELSE <<>>
        rejected == IF enabled THEN RejectedFiles(files) ELSE <<>>
        selects == OnDropSelects(accepted)
    IN  /\ lastEvent' =
               [kind |-> kind, files |-> files, selectedBefore |-> selectedFile,
                enabled |-> enabled, selects |-> selects,
                refused |-> IF enabled THEN rejected ELSE files,
                warned |-> OnDropWarns(rejected),
                reported |-> OnDropReports(rejected)]
        /\ selectedFile' =
               IF selects # <<>> THEN ParentOnFileSelect(selects[1]) ELSE selectedFile
        /\ UNCHANGED <<storeVars, now, catalogVars, disabled, lastOp>>

\* A drag-and-drop onto the root element.
Drop == \E files \in Drops : HandleFiles("drop", files)

\* A click opens the file dialog (not when disabled); the input has no
\* `multiple`, so the dialog returns one file, of any type the user picks.
Browse ==
    /\ ~DropzoneDisabled
    /\ \E f \in FilePool : HandleFiles("browse", <<f>>)

\* The remove button, rendered while a file is selected.
Remove ==
    /\ selectedFile # NoFile
    /\ selectedFile' = ParentOnFileRemove
    /\ lastEvent' = [NoEvent EXCEPT !.kind = "remove", !.selectedBefore = selectedFile,
                                    !.enabled = ~DropzoneDisabled]
    /\ UNCHANGED <<storeVars, now, catalogVars, disabled, lastOp>>

\* The caller changes the disabled prop.
SetDisabled ==
    /\ disabled' = ~disabled
    /\ lastEvent' = [NoEvent EXCEPT !.kind = "disabled", !.selectedBefore = selectedFile,
                                    !.enabled = ~DropzoneDisabled]
    /\ UNCHANGED <<storeVars, now, catalogVars, selectedFile, lastOp>>

-----------------------------------------------------------------------------
(* Specifications *)

Init ==
    /\ receipts = {}
    /\ line_items = {}
    /\ nextReceiptId = 1
    /\ nextItemId = 1
    /\ inflight = {}
    /\ now = 0
    /\ categories = <<>>
    /\ settings = <<>>
    /\ lastSet = [k \in SettingKeys |-> NULL]
    /\ selectedFile = NoFile
    /\ disabled = FALSE
    /\ lastOp = NoOp
    /\ lastEvent = NoEvent

\* receipts and line_items under statements and the ingestion pipeline
Next ==
    \/ InsertReceipt
    \/ UpdateStatus
    \/ DeleteReceipt
    \/ Upload
    \/ ExtractionReturns

Spec == Init /\ [][Next]_vars

\* receipts and their line_items under inserts and deletes
NextCascade ==
    \/ CreateReceipt
    \/ InsertLineItem
    \/ DeleteLineItem
    \/ DeleteReceipt

SpecCascade == Init /\ [][NextCascade]_vars

\* receipts under updates as time passes
NextStamp ==
    \/ StampInsert
    \/ UpdateReceipt
    \/ Tick

SpecStamp == Init /\ [][NextStamp]_vars

\* categories under the seed blocks, inserts and budget updates
NextCategories ==
    \/ SeedInitSql
    \/ SeedMigration
    \/ InsertCategory
    \/ UpdateBudget

SpecCategories == Init /\ [][NextCategories]_vars

\* settings under the seed block and sets as time passes
NextSettings ==
    \/ SeedSettings
    \/ SetSetting
    \/ Tick

SpecSettings == Init /\ [][NextSettings]_vars

\* the dropzone under drops, browsing, removal and the disabled prop
NextUI ==
    \/ Drop
    \/ Browse
    \/ Remove
    \/ SetDisabled

SpecUI == Init /\ [][NextUI]_vars

-----------------------------------------------------------------------------
(* Properties *)

\* C1: every line_items row references a receipts row that exists; deleting a
\* receipt removes its line items in the same step, so no state holds a line
\* item whose parent receipt is gone.  (SpecCascade)
C1_NoOrphanLineItems == \A li \in line_items : li.receipt_id \in ReceiptIds

\* C1 witness: a receipt with 3 line items has just been deleted, and the
\* receipt and its items are gone.
C1_DeletedWithThreeItems ==
    /\ lastOp.op = "delete_receipt"
    /\ lastOp.n = 3
    /\ lastOp.id \notin ReceiptIds
    /\ \A li \in line_items : li.receipt_id # lastOp.id

\* C2: every receipt row has a status that is one of pending, complete,
\* manual_review, whatever status (omitted and null included) an insert or
\* update supplies, and a receipt inserted without a status is pending.  (Spec)
C2_StatusAlwaysOneOfThree ==
    /\ \A r \in receipts : r.status \in StatusValues
    /\ lastOp.op = "insert_receipt" /\ lastOp.cols = {}
           => \A r \in receipts : r.id = lastOp.id => r.status = "pending"

C9_UpdateRefreshesAndKeepsCreated ==
    [][lastOp'.op = "update_receipt"
           => \A r \in receipts : \A q \in receipts' :
                  q.id = r.id /\ r.id = lastOp'.id
                      => q.updated_at = now' /\ q.created_at = r.created_at]_vars

\* C9 amended: after any update of a receipt, updated_at is the time of the
\* update, whatever updated_at the update supplies, and created_at is what it
\* was unless the update itself assigns created_at.  (SpecStamp)
C9_UpdateRefreshesUpdatedAt ==
    [][lastOp'.op = "update_receipt"
           => \A r \in receipts : \A q \in receipts' :
                  q.id = r.id /\ r.id = lastOp'.id
                      => /\ q.updated_at = now'
                         /\ "created_at" \notin lastOp'.cols
                                => q.created_at = r.created_at]_vars

\* C9 witness: an update that supplied updated_at = 0, later than time 0, of a
\* receipt created earlier, has stored the current time.
C9_SuppliedStampOverridden ==
    /\ lastOp.op = "update_receipt"
    /\ lastOp.cols = {"updated_at"}
    /\ now > 0
    /\ \E r \in receipts : r.id = lastOp.id /\ r.updated_at = now /\ r.created_at < now

\* C4: no two category rows have the same name, and an insert (the seed blocks
\* of init.sql and of the migration, or a single insert) adds no row for a name
\* that exists and leaves every existing row as it was.  (SpecCategories)
C4_CategoryNamesUnique ==
    [][/\ \A i, j \in 1..Len(categories') :
              categories'[i].name = categories'[j].name => i = j
       /\ lastOp'.op \in {"seed_init", "seed_migration", "insert_category"}
              => /\ Len(categories') >= Len(categories)
                 /\ \A i \in 1..Len(categories) : categories'[i] = categories[i]]_vars

\* C4 witness: the migration's seed block has run after the seed block of
\* init.sql, and Groceries is there once, with the limit init.sql gave it.
C4_SeededTwice ==
    /\ lastOp.op = "seed_migration"
    /\ Cardinality(NameConflicts(categories, "Groceries")) = 1
    /\ \E i \in 1..Len(categories) :
           categories[i] = CategoryRow("Groceries", "400.00")

\* C5: every settings key has at most one row, and a key that has been set
\* has exactly one row, holding the value of the last set.  (SpecSettings)
C5_OneRowLastValue ==
    \A k \in SettingKeys :
        /\ Cardinality(KeyConflicts(settings, k)) <= 1
        /\ lastSet[k] # NULL
               => /\ Cardinality(KeyConflicts(settings, k)) = 1
                  /\ \A i \in KeyConflicts(settings, k) : settings[i].value = lastSet[k]

\* C5 witness: a key/value pair that was already stored has been set again.
C5_SamePairSetAgain ==
    /\ lastOp.op = "set_setting"
    /\ lastOp.n = 1
    /\ lastOp.cols = {}
    /\ lastSet[lastOp.id] # NULL

\* C10: after a set of a settings key that already exists, the row's
\* updated_at is the time of that set.  (SpecSettings)
C10_SetRefreshesUpdatedAt ==
    lastOp.op = "set_setting" /\ lastOp.n = 1
        => \A i \in KeyConflicts(settings, lastOp.id) : settings[i].updated_at = now

\* C10 witness: theme, which the seed block created at time 0 or which existed
\* then, has been set later, and its updated_at is the later time.
C10_SeededKeySetLater ==
    /\ lastOp.op = "set_setting"
    /\ lastOp.id = "theme"
    /\ lastOp.n = 1
    /\ now > 0
    /\ \E i \in 1..Len(settings) : settings[i].key = "llm_provider" /\ settings[i].updated_at = 0
    /\ \E i \in 1..Len(settings) : settings[i].key = "theme" /\ settings[i].updated_at = now

\* C6: while a file is selected no drop or browse calls onFileSelect and the
\* selected file stays; with no file selected one drop calls onFileSelect at
\* most once, with the first file of an allowed type.  (SpecUI)
C6_AtMostOneFile ==
    lastEvent.kind \in {"drop", "browse"}
        => /\ lastEvent.selectedBefore # NoFile
                  => lastEvent.selects = <<>> /\ selectedFile = lastEvent.selectedBefore
           /\ Len(lastEvent.selects) <= 1
           /\ lastEvent.selects # <<>>
                  => \E i \in 1..Len(lastEvent.files) :
                         /\ lastEvent.selects[1] = lastEvent.files[i]
                         /\ \A j \in 1..(i - 1) :
                                lastEvent.files[j].type \notin
                                    {"image/jpeg", "image/png", "application/pdf"}

\* C6 witness: a file of an allowed type was dropped while another was
\* selected, and onFileSelect was not called.
C6_DropWhileSelected ==
    /\ lastEvent.kind = "drop"
    /\ lastEvent.selectedBefore # NoFile
    /\ lastEvent.files[1].type = "image/png"
    /\ lastEvent.selects = <<>>
    /\ ~disabled

\* C7: every drop or browse that leaves a file out (rejected by type or
\* count, or ignored while a file is selected) reports it to the caller.  (SpecUI)
C7_RejectionsReported ==
    lastEvent.kind \in {"drop", "browse"} /\ lastEvent.refused # <<>>
        => lastEvent.reported # <<>>

\* C8: onFileSelect is only called with a file of type image/jpeg, image/png
\* or application/pdf, so the selected file is of such a type.  (SpecUI)
C8_OnlyAllowedTypesSelected ==
    /\ \A i \in 1..Len(lastEvent.selects) :
           lastEvent.selects[i].type \in {"image/jpeg", "image/png", "application/pdf"}
    /\ selectedFile # NoFile
           => selectedFile.type \in {"image/jpeg", "image/png", "application/pdf"}

\* C8 witness: a .txt file was dropped, alone or ahead of an allowed file, on
\* an enabled dropzone and did not reach onFileSelect.
C8_TextFileKeptOut ==
    /\ lastEvent.kind = "drop"
    /\ lastEvent.enabled
    /\ lastEvent.files[1].type = "text/plain"
    /\ \A i \in 1..Len(lastEvent.selects) : lastEvent.selects[i].type # "text/plain"
    /\ Len(lastEvent.files) = 2 => lastEvent.selects # <<>>
    /\ Len(lastEvent.files) <= 2

====
